---- MODULE Spec2Model ----
(***************************************************************************)
(* A model of deploy.py: one run of deploy() is a sequence of steps, each  *)
(* step ending at an external process (git, tar, ssh, rsync, the build     *)
(* shell, the notifier) whose outcome the environment chooses.             *)
(*                                                                         *)
(* Texts are sequences of tokens (strings); paths are sequences of         *)
(* components.  File systems are functions from absolute paths to a        *)
(* content tag ("dir", "src" for content that equals the working tree's,   *)
(* "old" for anything else).                                               *)
(***************************************************************************)
EXTENDS Naturals, Sequences, FiniteSets, TLC

VARIABLES
    conf,      \* the deploy_conf module: name, top, cmd and the optional attributes
    args,      \* deploy's keyword arguments: host, cmd, profile, dry
    git,       \* the working tree under conf.top as git and rsync see it
    pc,        \* the position of the run inside deploy()
    loc,       \* deploy's local variables
    calls,     \* the external effects of the current run, in order
    fs,        \* the file systems under the build destination, per machine
    archives,  \* the directory ~/Archive/diffs: archive name -> member names
    status     \* "running", "ok" (deploy returned) or "failed" (an exception left it)

vars == <<conf, args, git, pc, loc, calls, fs, archives, status>>

(***************************************************************************)
(* Bounds of the model.                                                    *)
(***************************************************************************)
\* The length of a full hash in the model (git and sha1 print 40 digits).
HexLen == 9
\* The longest `git diff` output, in tokens.
MaxDiffLen == 3

\* mainline[:7], sha[:7]
ShortLen == 7

(***************************************************************************)
(* Python values.                                                          *)
(***************************************************************************)
Min(a, b) == IF a < b THEN a ELSE b

\* s[:n]
Take(s, n) == SubSeq(s, 1, Min(n, Len(s)))

\* `cmd or conf.cmd`, `if diff.strip()`: an empty text (or None) is false.
Truthy(v) == v # <<>>
\* `if host:`, `if profile:`: an empty string (or None) is false.
Given(s) == s # ""

RECURSIVE Join(_, _)
\* sep.join(parts), for texts
Join(parts, sep) ==
    IF parts = <<>> THEN <<>>
    ELSE IF Len(parts) = 1 THEN parts[1]
    ELSE parts[1] \o sep \o Join(Tail(parts), sep)

\* str(path): the components joined by "/"
Str(path) == Join([i \in 1..Len(path) |-> <<path[i]>>], <<"/">>)

\* Path.__truediv__: "." adds no component
PathJoin(path, rel) == path \o SelectSeq(rel, LAMBDA c : c # ".")

\* Path.expanduser
Home == "/home/user"
ExpandUser(path) ==
    IF path # <<>> /\ path[1] = "~" THEN <<Home>> \o Tail(path) ELSE path

\* hasattr(conf, a)
HasAttr(c, a) == a \in c.attrs
\* getattr(conf, a, [])
GetAttr(c, a) == IF HasAttr(c, a) THEN c[a] ELSE <<>>

(***************************************************************************)
(* get_diff                                                                *)
(***************************************************************************)
HexDigits == <<"0", "1", "2", "3", "4", "5", "6", "7",
               "8", "9", "a", "b", "c", "d", "e", "f">>

Whitespace == {" ", "\n"}
DiffTokens == <<"diff --git", " ", "\n", "+x", "-y">>

\* The tokens a hashed text is made of, for the model's digest.
Alphabet == HexDigits \o DiffTokens \o <<"master: ", "b'", "'", "\\n">>

Code(tok) == CHOOSE i \in 1..Len(Alphabet) : Alphabet[i] = tok

RECURSIVE Weigh(_, _, _)
Weigh(text, i, j) ==
    IF j > Len(text) THEN 0
    ELSE (i + j) * Code(text[j]) + Weigh(text, i, j + 1)

\* hashlib.sha1(text.encode()).hexdigest(): a digest of HexLen hex digits that
\* depends on every token of the text and on its place.
Sha1(text) ==
    [i \in 1..HexLen |-> HexDigits[((Weigh(text, i, 1) + Len(text)) % 16) + 1]]

RECURSIVE LStrip(_)
LStrip(s) == IF s # <<>> /\ Head(s) \in Whitespace THEN LStrip(Tail(s)) ELSE s

RECURSIVE RStrip(_)
RStrip(s) ==
    IF s # <<>> /\ s[Len(s)] \in Whitespace THEN RStrip(SubSeq(s, 1, Len(s) - 1)) ELSE s

\* bytes.strip(), str.strip()
Strip(s) == RStrip(LStrip(s))

\* str(diff) of a bytes object: its repr, b'...' with the newlines escaped
StrOfBytes(b) ==
    <<"b'">> \o [i \in 1..Len(b) |-> IF b[i] = "\n" THEN "\\n" ELSE b[i]] \o <<"'">>

\* get_diff without its test of diff.strip(): an empty diff is hashed too.
GetDiffAlwaysHashed(mainline, diff) ==
    LET difftext == <<"master: ">> \o mainline \o <<"\n">> \o StrOfBytes(diff) IN
    [sha |-> Sha1(difftext), difftext |-> difftext]

\* get_diff(path, mainline), given the output of `git diff mainline`
GetDiff(mainline, diff) ==
    LET difftext == <<"master: ">> \o mainline \o <<"\n">> IN
    IF Truthy(Strip(diff))
    THEN [sha |-> Sha1(difftext \o StrOfBytes(diff)),
          difftext |-> difftext \o StrOfBytes(diff)]
    ELSE [sha |-> mainline, difftext |-> difftext]

(***************************************************************************)
(* git_rsync: the rsync invocation and what rsync does with it             *)
(***************************************************************************)
\* The file names of the model and the suffix a glob sees in each.
Suffix(name) ==
    CASE name \in {"a.txt", "b.txt", "stale.txt"} -> ".txt"
      [] name \in {"x.o"} -> ".o"
      [] OTHER -> ""

\* One component of an rsync pattern against one file name.
CompMatch(cp, name) ==
    \/ cp = "*"
    \/ cp = name
    \/ cp \in {"*.txt", "*.o"} /\ cp = "*" \o Suffix(name)

\* rsync's pattern match: a pattern without "/" is matched against the last
\* component of the path, one with "/" against the tail of the path.
Match(pat, path) ==
    /\ Len(pat) <= Len(path)
    /\ \A i \in 1..Len(pat) : CompMatch(pat[i], path[Len(path) - Len(pat) + i])

\* Path(path).parents: every proper ancestor, "." last
Parents(path) == {SubSeq(path, 1, k) : k \in 1..(Len(path) - 1)} \cup {<<".">>}

RECURSIVE SetToSeq(_)
SetToSeq(S) ==
    IF S = {} THEN <<>>
    ELSE LET x == CHOOSE y \in S : TRUE IN <<x>> \o SetToSeq(S \ {x})

\* git_rsync's standard input: the tracked files, then their parent directories
IncludeFrom(tracked) ==
    tracked \o SetToSeq(UNION {Parents(tracked[i]) : i \in 1..Len(tracked)})

RECURSIVE Rules(_, _)
\* The filter rules rsync builds from its options, in the order of the options.
Rules(flags, stdin) ==
    IF flags = <<>> THEN <<>>
    ELSE LET f == Head(flags)
             here == CASE f.opt = "--include-from=-" ->
                             [i \in 1..Len(stdin) |-> [sign |-> "+", pat |-> stdin[i]]]
                       [] f.opt = "--include=" -> <<[sign |-> "+", pat |-> f.val]>>
                       [] f.opt = "--filter=P " -> <<[sign |-> "P", pat |-> f.val]>>
                       [] f.opt = "--exclude=" -> <<[sign |-> "-", pat |-> f.val]>>
                       [] OTHER -> <<>>
         IN here \o Rules(Tail(flags), stdin)

HasFlag(flags, opt) == \E i \in 1..Len(flags) : flags[i].opt = opt

\* The sender's verdict on one path: the first include or exclude rule that
\* matches decides, and a path no rule matches is included.
Included(rules, path) ==
    LET hits == {i \in 1..Len(rules) :
                    rules[i].sign \in {"+", "-"} /\ Match(rules[i].pat, path)}
    IN hits = {} \/ rules[CHOOSE i \in hits : \A j \in hits : i <= j].sign = "+"

\* The sender's file list: a path is sent when it and all its ancestors are included.
Sent(tree, rules) ==
    {p \in DOMAIN tree : \A k \in 1..Len(p) : Included(rules, SubSeq(p, 1, k))}

\* With --delete-excluded the include and exclude rules bind the sender only, so
\* the receiver is left with the protect rules.
Protected(rules, path) ==
    \E i \in 1..Len(rules) : rules[i].sign = "P" /\ Match(rules[i].pat, path)

IsPrefix(p, q) == Len(p) <= Len(q) /\ SubSeq(q, 1, Len(p)) = p

\* The entries of a file system below the directory `to`, relative to it.
Below(fsm, to) ==
    {SubSeq(p, Len(to) + 1, Len(p)) : p \in {q \in DOMAIN fsm : IsPrefix(to, q) /\ q # to}}

\* A destination entry outside the file list survives the deletion pass when it
\* or a directory above it (itself outside the file list) is protected, or when
\* it is a directory that still holds a survivor.
Hidden(rules, sent, e) ==
    \E k \in 1..Len(e) : SubSeq(e, 1, k) \notin sent /\ Protected(rules, SubSeq(e, 1, k))

Survives(rules, sent, old, e) ==
    \E d \in old : IsPrefix(e, d) /\ d \notin sent /\ Hidden(rules, sent, d)

\* rsync *flags repo/ to, reading stdin: the receiving file system afterwards.
Rsync(tree, stdin, to, flags, fsm) ==
    LET rules == Rules(flags, stdin)
        sent == Sent(tree, rules)
        old == Below(fsm, to)
        gone == IF HasFlag(flags, "--delete-excluded")
                THEN {e \in old \ sent : ~Survives(rules, sent, old, e)}
                ELSE {}
        paths == ((DOMAIN fsm) \ {to \o e : e \in gone}) \cup {to} \cup {to \o p : p \in sent}
    IN IF HasFlag(flags, "-n") THEN fsm
       ELSE [q \in paths |->
                IF q = to THEN "dir"
                ELSE IF IsPrefix(to, q) /\ SubSeq(q, Len(to) + 1, Len(q)) \in sent
                     THEN tree[SubSeq(q, Len(to) + 1, Len(q))]
                     ELSE fsm[q]]

\* git_rsync(repo, to, flags): the file system of the receiving machine afterwards
GitRsync(repo, to, flags, fsm) ==
    Rsync(repo.tree, IncludeFrom(repo.tracked), to, flags, fsm)

(***************************************************************************)
(* deploy: the values it computes                                          *)
(***************************************************************************)
Opt(o) == [opt |-> o, val |-> <<>>]

\* rsync_flags with conf.exclude handed to rsync as exclude rules.
RsyncFlagsExcluding(c, dry) ==
    <<Opt("-ai"), Opt("--delete-excluded"), Opt("--include-from=-")>>
    \o [i \in 1..Len(GetAttr(c, "include")) |->
            [opt |-> "--include=", val |-> GetAttr(c, "include")[i]]]
    \o [i \in 1..Len(GetAttr(c, "exclude")) |->
            [opt |-> "--exclude=", val |-> GetAttr(c, "exclude")[i]]]
    \o <<[opt |-> "--exclude=", val |-> <<"*">>]>>
    \o (IF dry THEN <<Opt("-n")>> ELSE <<>>)

\* rsync_flags
RsyncFlags(c, dry) ==
    <<Opt("-ai"), Opt("--delete-excluded"), Opt("--include-from=-")>>
    \o [i \in 1..Len(GetAttr(c, "include")) |->
            [opt |-> "--include=", val |-> GetAttr(c, "include")[i]]]
    \o [i \in 1..Len(GetAttr(c, "exclude")) |->
            [opt |-> "--filter=P ", val |-> GetAttr(c, "exclude")[i]]]
    \o <<[opt |-> "--exclude=", val |-> <<"*">>]>>
    \o (IF dry THEN <<Opt("-n")>> ELSE <<>>)

\* dest = Path('~/var/Builds')/conf.name
Dest(c) == <<"~", "var", "Builds", c.name>>

\* branch, with the profile appended
Branch(g, a) == IF Given(a.profile) THEN g.branch \o ":" \o a.profile ELSE g.branch

\* The directory git_rsync is given as its target: prefix/top
SyncTarget(prefix, top) == PathJoin(prefix, top)

RECURSIVE Flatten(_)
Flatten(texts) == IF texts = <<>> THEN <<>> ELSE Head(texts) \o Flatten(Tail(texts))

\* Template(text).safe_substitute(mapping): $NAME and ${NAME} of a known NAME are
\* replaced, $$ is a dollar sign, anything else stays as it is.
SafeSubstitute(text, mapping) ==
    LET Value(tok) ==
            CASE tok \in {"$DEST", "${DEST}"} -> mapping.DEST
              [] tok \in {"$PREFIX", "${PREFIX}"} -> mapping.PREFIX
              [] tok \in {"$SHA", "${SHA}"} -> mapping.SHA
              [] tok \in {"$TOP", "${TOP}"} -> mapping.TOP
              [] tok \in {"$BRANCH", "${BRANCH}"} -> mapping.BRANCH
              [] tok = "$$" -> <<"$">>
              [] OTHER -> <<tok>>
    IN Flatten([i \in 1..Len(text) |-> Value(text[i])])

\* The announcement echoes the command between backquotes.  A string of this
\* module cannot hold a backquote, which is written out in the two tokens.
EchoOpen == "echo 'Building with <backquote>"
EchoClose == "<backquote>...'"

\* build_script with the prebuild hook appended after the popd.
ScriptLinesHookLast(c, cmd, prefix) ==
    <<<<"set -e">>>>
    \o << <<EchoOpen>> \o cmd \o <<EchoClose>>,
          <<"pushd ">> \o Str(prefix),
          cmd,
          <<"popd">> >>
    \o (IF HasAttr(c, "prebuild") THEN <<c.prebuild>> ELSE <<>>)
    \o (IF HasAttr(c, "postbuild") THEN <<c.postbuild>> ELSE <<>>)

\* build_script, before the substitution: the list of its statements
ScriptLines(c, cmd, prefix) ==
    <<<<"set -e">>>>
    \o (IF HasAttr(c, "prebuild") THEN <<c.prebuild>> ELSE <<>>)
    \o << <<EchoOpen>> \o cmd \o <<EchoClose>>,
          <<"pushd ">> \o Str(prefix),
          cmd,
          <<"popd">> >>
    \o (IF HasAttr(c, "postbuild") THEN <<c.postbuild>> ELSE <<>>)

\* build_script, as it is run
BuildScript(c, cmd, dest, prefix, sha, branch) ==
    SafeSubstitute(Join(ScriptLines(c, cmd, prefix), <<"\n">>),
                   [DEST |-> Str(dest), PREFIX |-> Str(prefix), SHA |-> sha,
                    TOP |-> <<c.top>>, BRANCH |-> <<branch>>])

\* msg
Message(c, sha, host) ==
    <<"Finished compiling ", c.name, " at ">> \o sha
    \o (IF Given(host) THEN <<" on ", host>> ELSE <<>>)

\* save_diff's archive: f'{name}.diff.tar.gz' with name = f'{conf.name}-{sha}'
ArchiveName(c, sha) == <<c.name, "-">> \o sha \o <<".diff.tar.gz">>

\* save_diff that clears the archive directory first.
SaveDiffAlone(dir, name, diff) ==
    [n \in {name} |-> <<[member |-> "diff", text |-> diff]>>]

\* tarfile.open(path, 'w|gz') followed by add(f.name, 'diff'): the archive is
\* created or truncated, and holds the one member.
SaveDiff(dir, name, diff) ==
    [n \in (DOMAIN dir) \cup {name} |->
        IF n = name THEN <<[member |-> "diff", text |-> diff]>> ELSE dir[n]]

(***************************************************************************)
(* The run                                                                 *)
(***************************************************************************)
NoLocals ==
    [branch |-> "", mainline |-> <<>>, sha |-> <<>>, diff |-> <<>>, cmd |-> <<>>,
     dest |-> <<>>, prefix |-> <<>>, rsync_flags |-> <<>>, build_script |-> <<>>,
     script_file |-> <<>>, msg |-> <<>>]

\* The machine the destination is on.
Machine(a) == IF Given(a.host) THEN a.host ELSE "local"

\* One external effect: the program, the machine it acts on, what it is asked to
\* do, whether it exits with status 0, and the directory a shell is started in.
Call(prog, on, what, ok) ==
    [prog |-> prog, on |-> on, what |-> what, ok |-> ok, dir |-> <<>>]

\* The directory main() runs deploy in (os.chdir(change_dir), or where it was started).
Cwd == <<".">>

\* An exception leaves deploy: the interpreter prints it and exits non-zero.
Raise == pc' = "end" /\ status' = "failed"

\* Lines 59-78: the git queries and get_diff.
Capture ==
    /\ pc = "start"
    /\ \E ok \in BOOLEAN :
        /\ calls' = Append(calls, Call("git", "local", "rev-parse merge-base diff", ok))
        /\ IF ok
           THEN LET mainline == Strip(git.mergebase)
                    d == GetDiff(mainline, git.diff)
                IN /\ loc' = [loc EXCEPT !.cmd = IF Truthy(args.cmd) THEN args.cmd ELSE conf.cmd,
                                         !.dest = Dest(conf),
                                         !.rsync_flags = RsyncFlags(conf, args.dry),
                                         !.branch = Branch(git, args),
                                         !.mainline = Take(mainline, ShortLen),
                                         !.sha = Take(d.sha, ShortLen),
                                         !.diff = d.difftext]
                   /\ pc' = "captured"
                   /\ UNCHANGED status
           ELSE Raise /\ UNCHANGED loc
    /\ UNCHANGED <<conf, args, git, fs, archives>>

\* Lines 83-84: save_diff, then the prefix.
Save ==
    /\ pc = "captured"
    /\ \E ok \in BOOLEAN :
        /\ calls' = Append(calls, Call("tar", "local", "diff", ok))
        /\ IF ok
           THEN /\ archives' = SaveDiff(archives, ArchiveName(conf, loc.sha), loc.diff)
                /\ loc' = [loc EXCEPT !.prefix = loc.dest \o <<"branches", loc.branch>>]
                /\ pc' = "saved"
                /\ UNCHANGED status
           ELSE Raise /\ UNCHANGED <<archives, loc>>
    /\ UNCHANGED <<conf, args, git, fs>>

\* The reachability check with sp.call: its exit status is ignored.
SshCheckUnchecked ==
    /\ pc = "saved"
    /\ Given(args.host)
    /\ \E ok \in BOOLEAN :
        /\ calls' = Append(calls, Call("ssh", args.host, ":", ok))
        /\ pc' = "reachable"
    /\ UNCHANGED <<conf, args, git, loc, fs, archives, status>>

\* Line 86: ssh host ':'
SshCheck ==
    /\ pc = "saved"
    /\ Given(args.host)
    /\ \E ok \in BOOLEAN :
        /\ calls' = Append(calls, Call("ssh", args.host, ":", ok))
        /\ IF ok THEN pc' = "reachable" /\ UNCHANGED status ELSE Raise
    /\ UNCHANGED <<conf, args, git, loc, fs, archives>>

\* What the presync hook of the model transfers, and where to.
HookRepo == [tree |-> (<<"x.o">> :> "src"), tracked |-> << <<"x.o">> >>]
HookTarget(dest) == dest \o <<"extra">>

\* Lines 88-90: conf.presync(ctx).  The hook is the configuration's code; the one
\* capability deploy hands it is ctx.git_sync, git_rsync with this run's flags,
\* which the hook of the model uses once or not at all before it returns or raises.
Presync ==
    /\ pc = "reachable"
    /\ HasAttr(conf, "presync")
    /\ \E syncs \in BOOLEAN, ok \in BOOLEAN :
        /\ calls' = IF syncs
                    THEN calls \o <<Call("rsync", args.host, "hook", TRUE),
                                    Call("presync", "local", "hook", ok)>>
                    ELSE Append(calls, Call("presync", "local", "hook", ok))
        /\ fs' = IF syncs
                 THEN [fs EXCEPT ![args.host] =
                          GitRsync(HookRepo, HookTarget(loc.dest), loc.rsync_flags, @)]
                 ELSE fs
        /\ IF ok THEN pc' = "presynced" /\ UNCHANGED status ELSE Raise
    /\ UNCHANGED <<conf, args, git, loc, archives>>

\* mkdir -p: the directory and every missing directory above it
MkdirP(fsm, dir) ==
    [q \in (DOMAIN fsm) \cup {SubSeq(dir, 1, k) : k \in 1..Len(dir)} |->
        IF q \in DOMAIN fsm THEN fsm[q] ELSE "dir"]

\* Line 91: ssh host 'mkdir -p {prefix}'
MkdirRemote ==
    /\ \/ pc = "presynced"
       \/ pc = "reachable" /\ ~HasAttr(conf, "presync")
    /\ \E ok \in BOOLEAN :
        /\ calls' = Append(calls, Call("ssh", args.host, "mkdir -p", ok))
        /\ IF ok
           THEN /\ fs' = [fs EXCEPT ![args.host] = MkdirP(@, loc.prefix)]
                /\ pc' = "made"
                /\ UNCHANGED status
           ELSE Raise /\ UNCHANGED fs
    /\ UNCHANGED <<conf, args, git, loc, archives>>

\* Lines 94-96: the paths are expanded, and prefix.mkdir(exist_ok=True) makes the
\* one directory: it raises FileNotFoundError when the directory above is missing.
MkdirLocal ==
    /\ pc = "saved"
    /\ ~Given(args.host)
    /\ LET dest == ExpandUser(loc.dest)
           prefix == ExpandUser(loc.prefix)
           above == SubSeq(prefix, 1, Len(prefix) - 1)
           ok == prefix \in DOMAIN fs["local"] \/ above \in DOMAIN fs["local"]
       IN /\ calls' = Append(calls, Call("mkdir", "local", "mkdir", ok))
          /\ IF ok
             THEN /\ fs' = [fs EXCEPT !["local"] =
                               [q \in (DOMAIN @) \cup {prefix} |->
                                   IF q \in DOMAIN @ THEN @[q] ELSE "dir"]]
                  /\ loc' = [loc EXCEPT !.dest = dest, !.prefix = prefix]
                  /\ pc' = "made"
                  /\ UNCHANGED status
             ELSE Raise /\ UNCHANGED <<fs, loc>>
    /\ UNCHANGED <<conf, args, git, archives>>

\* The sync with check=False: rsync's exit status is ignored.
SyncUnchecked ==
    /\ pc = "made"
    /\ \E ok \in BOOLEAN, done \in BOOLEAN :
        /\ ok => done
        /\ calls' = Append(calls, Call("rsync", Machine(args), "sync", ok))
        /\ fs' = IF done
                 THEN [fs EXCEPT ![Machine(args)] =
                          GitRsync(git, SyncTarget(loc.prefix, <<conf.top>>),
                                   loc.rsync_flags, @)]
                 ELSE fs
        /\ pc' = "synced"
    /\ UNCHANGED <<conf, args, git, loc, archives, status>>

\* Lines 92 and 97: git_rsync(top, prefix/top, rsync_flags), to the host or locally.
\* rsync that exits non-zero may have transferred nothing or everything.
Sync ==
    /\ pc = "made"
    /\ \E ok \in BOOLEAN, done \in BOOLEAN :
        /\ ok => done
        /\ calls' = Append(calls, Call("rsync", Machine(args), "sync", ok))
        /\ fs' = IF done
                 THEN [fs EXCEPT ![Machine(args)] =
                          GitRsync(git, SyncTarget(loc.prefix, <<conf.top>>),
                                   loc.rsync_flags, @)]
                 ELSE fs
        /\ IF ok THEN pc' = "synced" /\ UNCHANGED status ELSE Raise
    /\ UNCHANGED <<conf, args, git, loc, archives>>

\* The test of the dry flag left out.
SkipsNever(a) == FALSE

\* Line 98: `if dry:`
Skips(a) == a.dry

\* Lines 98-99: if dry: return
DryReturn ==
    /\ pc = "synced"
    /\ Skips(args)
    /\ pc' = "end"
    /\ status' = "ok"
    /\ UNCHANGED <<conf, args, git, loc, calls, fs, archives>>

\* Lines 100-118: the build script and the message.
Render ==
    /\ pc = "synced"
    /\ ~Skips(args)
    /\ loc' = [loc EXCEPT !.build_script = BuildScript(conf, loc.cmd, loc.dest, loc.prefix,
                                                       loc.sha, loc.branch),
                          !.msg = Message(conf, loc.sha, "")]
    /\ pc' = "rendered"
    /\ UNCHANGED <<conf, args, git, calls, fs, archives, status>>

\* Lines 121-126: ssh host 'F=$(mktemp) && cat >$F && echo $F', fed the script.
Upload ==
    /\ pc = "rendered"
    /\ Given(args.host)
    /\ \E ok \in BOOLEAN :
        /\ calls' = Append(calls, Call("ssh", args.host, "upload", ok))
        /\ IF ok
           THEN /\ loc' = [loc EXCEPT !.script_file = <<"/tmp/tmp.script", "\n">>]
                /\ pc' = "uploaded"
                /\ UNCHANGED status
           ELSE Raise /\ UNCHANGED loc
    /\ UNCHANGED <<conf, args, git, fs, archives>>

\* Lines 127-128: ssh -t host 'cd {dest} && bash {script_file}'
RunRemote ==
    /\ pc = "uploaded"
    /\ \E ok \in BOOLEAN :
        /\ calls' = Append(calls, [Call("ssh", args.host, "bash", ok)
                                       EXCEPT !.dir = Str(loc.dest)])
        /\ IF ok
           THEN /\ loc' = [loc EXCEPT !.msg = Message(conf, loc.sha, args.host)]
                /\ pc' = "built"
                /\ UNCHANGED status
           ELSE Raise /\ UNCHANGED loc
    /\ UNCHANGED <<conf, args, git, fs, archives>>

\* The local build with sp.call: the script's exit status is ignored.
RunLocalUnchecked ==
    /\ pc = "rendered"
    /\ ~Given(args.host)
    /\ \E ok \in BOOLEAN :
        /\ calls' = Append(calls, [Call("sh", "local", "bash", ok) EXCEPT !.dir = Cwd])
        /\ pc' = "built"
    /\ UNCHANGED <<conf, args, git, loc, fs, archives, status>>

\* Line 130: sp.check_call(build_script, shell=True)
RunLocal ==
    /\ pc = "rendered"
    /\ ~Given(args.host)
    /\ \E ok \in BOOLEAN :
        /\ calls' = Append(calls, [Call("sh", "local", "bash", ok) EXCEPT !.dir = Cwd])
        /\ IF ok THEN pc' = "built" /\ UNCHANGED status ELSE Raise
    /\ UNCHANGED <<conf, args, git, loc, fs, archives>>

\* Lines 131 and 40-44: notify(name, msg) is sp.check_call: a notifier that exits
\* non-zero (or is not installed) raises, and nothing catches it.
Notify ==
    /\ pc = "built"
    /\ \E ok \in BOOLEAN :
        /\ calls' = Append(calls, Call("notify", "local", "notify", ok))
        /\ IF ok THEN pc' = "end" /\ status' = "ok" ELSE Raise
    /\ UNCHANGED <<conf, args, git, loc, fs, archives>>

(***************************************************************************)
(* The configurations, arguments and working trees the runs are drawn from *)
(***************************************************************************)
Mainline(k) == [i \in 1..HexLen |-> HexDigits[((i * k) % 16) + 1]]

\* A working tree with a.txt and sub/b.txt tracked and x.o untracked.
Tree == (<<"a.txt">> :> "src") @@ (<<"sub">> :> "dir") @@ (<<"sub", "b.txt">> :> "src")
        @@ (<<"x.o">> :> "src")
Tracked == << <<"a.txt">>, <<"sub", "b.txt">> >>

Confs ==
    {[name |-> "proj", top |-> ".", cmd |-> <<"make">>, attrs |-> hooks \cup {"exclude"},
      include |-> <<>>, exclude |-> << <<"*.o">> >>,
      prebuild |-> <<"module load gcc">>, postbuild |-> <<"cp build ", "$DEST", "/", "$SHA">>]
        : hooks \in SUBSET {"presync", "prebuild", "postbuild"}}

Args ==
    [host : {"", "h"}, cmd : {<<>>, <<"make test">>}, profile : {""}, dry : BOOLEAN]

Gits ==
    [branch : {"master"}, mergebase : {Mainline(3) \o <<"\n">>},
     diff : {<<>>, <<"+x", "\n">>}, tree : {Tree}, tracked : {Tracked}]

Machines == {"local", "h"}
NoFiles == <<>>
\* ~/var/Builds/proj/branches made by hand
Parent == <<Home, "var", "Builds", "proj", "branches">>
LocalFiles == {NoFiles, MkdirP(NoFiles, Parent)}

Init ==
    /\ conf \in Confs
    /\ args \in Args
    /\ git \in Gits
    /\ pc = "start"
    /\ loc = NoLocals
    /\ calls = <<>>
    /\ fs \in {[m \in Machines |-> IF m = "local" THEN l ELSE NoFiles] : l \in LocalFiles}
    /\ archives = <<>>
    /\ status = "running"

\* main() is run again: another process, with the files the earlier runs left.
NewRun ==
    /\ pc = "end"
    /\ args' \in Args
    /\ git' \in Gits
    /\ pc' = "start"
    /\ loc' = NoLocals
    /\ calls' = <<>>
    /\ status' = "running"
    /\ UNCHANGED <<conf, fs, archives>>

Next ==
    \/ Capture
    \/ Save
    \/ SshCheck
    \/ Presync
    \/ MkdirRemote
    \/ MkdirLocal
    \/ Sync
    \/ DryReturn
    \/ Render
    \/ Upload
    \/ RunRemote
    \/ RunLocal
    \/ Notify
    \/ NewRun

Spec == Init /\ [][Next]_vars

(***************************************************************************)
(* Properties of the run                                                   *)
(***************************************************************************)
Calls(prog, what) == {i \in 1..Len(calls) : calls[i].prog = prog /\ calls[i].what = what}
\* The build script is handed to a machine (uploaded) or to a shell (run).
ScriptCalls == {i \in 1..Len(calls) : calls[i].what \in {"upload", "bash"}}
NotifyCalls == Calls("notify", "notify")
MainSyncCalls == Calls("rsync", "sync")
Failed == {i \in 1..Len(calls) : ~calls[i].ok}

\* C1: in a run with the dry flag set the build script is never uploaded and
\* never run, locally or over ssh, and notify is never called.
DryRunNeverBuildsOrNotifies ==
    args.dry => /\ ScriptCalls = {}
                /\ NotifyCalls = {}
                /\ pc \notin {"rendered", "uploaded", "built"}
                /\ loc.build_script = <<>>

\* A dry run to a host, with all three hooks configured, has synced and returned.
DryRunReturned ==
    /\ args.dry
    /\ Given(args.host)
    /\ {"presync", "prebuild", "postbuild"} \subseteq conf.attrs
    /\ Truthy(args.cmd)
    /\ MainSyncCalls # {}
    /\ pc = "end"
    /\ status = "ok"

\* C2: notify is called only after the build script has exited with status 0:
\* after a failed upload, or a failed run of the script on the host or locally,
\* the run has failed and notify is not called.
NotifyOnlyAfterSuccessfulBuild ==
    /\ \A n \in NotifyCalls :
          /\ \E b \in 1..(n - 1) : calls[b].what = "bash" /\ calls[b].ok
          /\ \A b \in 1..(n - 1) : calls[b].what \in {"upload", "bash"} => calls[b].ok
          /\ Given(args.host) => \E u \in 1..(n - 1) : calls[u].what = "upload" /\ calls[u].ok
    /\ (\E b \in ScriptCalls : ~calls[b].ok) => NotifyCalls = {} /\ status = "failed"

\* The script was uploaded and run on the host, and the notification sent.
NotifiedAfterRemoteBuild ==
    /\ Given(args.host)
    /\ NotifyCalls # {}
    /\ \E b \in ScriptCalls : calls[b].what = "bash" /\ calls[b].ok
    /\ status = "ok"

\* C3: the main sync comes before the build and the build before the
\* notification; a step that fails is the last thing the run does, and the run has
\* then ended with a failure: no build after a failed sync, nothing after a failed
\* build; and neither the sync nor the build is invoked a second time.
FailureEndsTheRun ==
    /\ \A b \in ScriptCalls : \E y \in MainSyncCalls : y < b /\ calls[y].ok
    /\ \A n \in NotifyCalls : \E b \in ScriptCalls : b < n /\ calls[b].what = "bash"
    /\ \A f \in Failed : f = Len(calls) /\ pc = "end" /\ status = "failed"
    /\ Cardinality(MainSyncCalls) <= 1
    /\ Cardinality(Calls("ssh", "upload")) <= 1
    /\ Cardinality({b \in ScriptCalls : calls[b].what = "bash"}) <= 1
    /\ status = "failed" => pc = "end"

\* The sync failed, and the run ended there.
SyncFailed ==
    /\ MainSyncCalls # {}
    /\ \E y \in MainSyncCalls : ~calls[y].ok
    /\ status = "failed"

\* C4: with the dry flag set no step of the run changes a file system at the
\* destination, on the host or locally.
DryRunChangesNothing ==
    [][args.dry /\ pc # "end" => fs' = fs]_vars

\* C5: with a host given, whatever touches the host (the presync hook, the remote
\* mkdir, the rsync to the host, the upload and the run of the script) comes after
\* a reachability check that succeeded, and the host's files are as they were
\* until then.
TouchesHost(c) == (c.on # "local" \/ c.prog = "presync") /\ c.what # ":"

ReachabilityCheckedFirst ==
    Given(args.host) =>
        /\ \A i \in 1..Len(calls) :
              TouchesHost(calls[i]) =>
                  \E j \in 1..(i - 1) : calls[j].what = ":" /\ calls[j].ok
        /\ \A j \in Calls("ssh", ":") : \A i \in 1..(j - 1) : calls[i].on = "local"
        /\ (\E j \in Calls("ssh", ":") : ~calls[j].ok) =>
              /\ \A i \in 1..Len(calls) : ~TouchesHost(calls[i])
              /\ status = "failed"

\* The check failed and the run ended with the host untouched.
HostUnreachable ==
    /\ Given(args.host)
    /\ \E j \in Calls("ssh", ":") : ~calls[j].ok
    /\ pc = "end"

\* C6: every failure but the notifier's ends the run with a failure, and a failure
\* of the notifier after a successful build leaves the run successful.
NotifyFailureIsAWarning ==
    \A f \in Failed :
        IF calls[f].prog = "notify"
        THEN pc = "end" => status = "ok"
        ELSE status = "failed"

\* C10: a run that has captured and saved the diff has written one archive,
\* {name}-{identifier}.diff.tar.gz with the one member `diff` holding the diff text,
\* dry or not and whatever fails later; and no step removes an archive.
OneArchivePerRun ==
    /\ [](/\ Cardinality(Calls("tar", "diff")) <= 1
          /\ (\E t \in Calls("tar", "diff") : calls[t].ok) =>
                /\ ArchiveName(conf, loc.sha) \in DOMAIN archives
                /\ archives[ArchiveName(conf, loc.sha)]
                      = <<[member |-> "diff", text |-> loc.diff]>>
                /\ loc.diff[1] = "master: "
          /\ pc \notin {"start", "captured"} /\ status # "failed" =>
                \E t \in Calls("tar", "diff") : calls[t].ok)
    /\ [][/\ DOMAIN archives \subseteq DOMAIN archives'
          /\ Cardinality(DOMAIN archives') <= Cardinality(DOMAIN archives) + 1
          /\ archives' # archives => pc = "captured" /\ pc' = "saved"]_vars

\* A dry run with an empty diff has ended, and the archive of an earlier run with
\* a diff is still there beside its own.
ArchivesKept ==
    /\ args.dry
    /\ git.diff = <<>>
    /\ pc = "end"
    /\ Cardinality(DOMAIN archives) = 2
    /\ ArchiveName(conf, loc.sha) \in DOMAIN archives

(***************************************************************************)
(* Diff capture over more merge-bases and diffs                            *)
(***************************************************************************)
RECURSIVE Texts(_, _)
\* The texts of at most n tokens over a set of tokens.
Texts(toks, n) ==
    IF n = 0 THEN {<<>>}
    ELSE LET shorter == Texts(toks, n - 1)
         IN shorter \cup {Append(t, k) : t \in shorter, k \in toks}

\* What `git diff` prints: nothing, or a text that starts with a diff header.
Diffs ==
    {<<>>} \cup {<<"diff --git">> \o t :
                    t \in Texts({DiffTokens[i] : i \in 1..Len(DiffTokens)}, MaxDiffLen - 1)}

GitsDiff ==
    [branch : {"master"}, mergebase : {Mainline(k) \o <<"\n">> : k \in {1, 3, 5}},
     diff : Diffs, tree : {Tree}, tracked : {Tracked}]

InitDiff ==
    /\ conf \in {c \in Confs : c.attrs = {"exclude"}}
    /\ args \in {a \in Args : ~Given(a.host) /\ ~Truthy(a.cmd)}
    /\ git \in GitsDiff
    /\ pc = "start"
    /\ loc = NoLocals
    /\ calls = <<>>
    /\ fs = [m \in Machines |-> NoFiles]
    /\ archives = <<>>
    /\ status = "running"

NextDiff ==
    \/ Capture
    \/ Save

SpecDiff == InitDiff /\ [][NextDiff]_vars

\* C7: when `git diff` against the merge-base prints nothing, the identifier
\* (in the archive name, and the SHA of the build script and the message) is the
\* first 7 characters of the merge-base hash; otherwise it is the first 7 hex
\* digits of the hash of the text made of the mainline line and the diff.
IdentifierOfDiff ==
    pc \in {"captured", "saved"} =>
        LET base == SubSeq(git.mergebase, 1, Len(git.mergebase) - 1)
            text == <<"master: ">> \o base \o <<"\n">> \o StrOfBytes(git.diff)
        IN /\ Len(loc.sha) = ShortLen
           /\ loc.sha \in Seq({HexDigits[i] : i \in 1..16})
           /\ IF git.diff = <<>>
              THEN \A i \in 1..ShortLen : loc.sha[i] = base[i]
              ELSE \A i \in 1..ShortLen : loc.sha[i] = Sha1(text)[i]
           /\ pc = "saved" => DOMAIN archives = {<<conf.name, "-">> \o loc.sha \o <<".diff.tar.gz">>}

\* An empty diff was captured and archived under the merge-base's short hash.
EmptyDiffSaved ==
    /\ pc = "saved"
    /\ git.diff = <<>>
    /\ loc.sha = SubSeq(git.mergebase, 1, ShortLen)
    /\ loc.mainline = loc.sha

(***************************************************************************)
(* The build script over more configurations                               *)
(***************************************************************************)
ConfsScript ==
    {[name |-> "proj", top |-> top, cmd |-> <<"make">>, attrs |-> hooks,
      include |-> <<>>, exclude |-> <<>>,
      prebuild |-> <<"module load gcc">>, postbuild |-> <<"cp build ", "$DEST", "/", "$SHA">>]
        : hooks \in SUBSET {"prebuild", "postbuild"}, top \in {".", "src"}}

ArgsScript ==
    [host : {"", "h"}, cmd : {<<>>, <<"make test">>}, profile : {"", "staging"},
     dry : {FALSE}]

InitScript ==
    /\ conf \in ConfsScript
    /\ args \in ArgsScript
    /\ git \in Gits
    /\ pc = "start"
    /\ loc = NoLocals
    /\ calls = <<>>
    /\ fs = [m \in Machines |-> IF m = "local" THEN MkdirP(NoFiles, Parent) ELSE NoFiles]
    /\ archives = <<>>
    /\ status = "running"

NextScript ==
    \/ Capture
    \/ Save
    \/ SshCheck
    \/ MkdirRemote
    \/ MkdirLocal
    \/ Sync
    \/ Render
    \/ Upload
    \/ RunRemote
    \/ RunLocal
    \/ Notify

SpecScript == InitScript /\ [][NextScript]_vars

RECURSIVE SplitLines(_)
\* The lines of a text.
SplitLines(text) ==
    IF \A i \in 1..Len(text) : text[i] # "\n" THEN <<text>>
    ELSE LET n == CHOOSE i \in 1..Len(text) :
                      text[i] = "\n" /\ \A j \in 1..(i - 1) : text[j] # "\n"
         IN <<SubSeq(text, 1, n - 1)>> \o SplitLines(SubSeq(text, n + 1, Len(text)))

\* What a statement of the script is, by how it begins.
Kind(line) ==
    CASE line = <<"set -e">> -> "preamble"
      [] line = <<"popd">> -> "popd"
      [] line # <<>> /\ line[1] = EchoOpen -> "announce"
      [] line # <<>> /\ line[1] = "pushd " -> "pushd"
      [] line # <<>> /\ line[1] = "module load gcc" -> "prebuild"
      [] line # <<>> /\ line[1] = "cp build " -> "postbuild"
      [] line = loc.cmd -> "build"
      [] OTHER -> "other"

ScriptKinds ==
    LET lines == SplitLines(loc.build_script) IN [i \in 1..Len(lines) |-> Kind(lines[i])]

ExpectedKinds ==
    <<"preamble">>
    \o (IF "prebuild" \in conf.attrs THEN <<"prebuild">> ELSE <<>>)
    \o <<"announce", "pushd", "build", "popd">>
    \o (IF "postbuild" \in conf.attrs THEN <<"postbuild">> ELSE <<>>)

\* The statement of the script of a kind (there is one of each).
Statement(kind) ==
    LET lines == SplitLines(loc.build_script)
    IN lines[CHOOSE i \in 1..Len(lines) : Kind(lines[i]) = kind]

\* The directory the source was synced to, as the script would name it.
SyncedTo == Str(SyncTarget(loc.prefix, <<conf.top>>))

BuildCalls == {i \in 1..Len(calls) : calls[i].what = "bash"}

\* C8, as claimed: the statements in their order, the pushd entering the
\* directory the source was synced to and the popd ending in the deployment root.
ScriptAsClaimed ==
    pc \in {"rendered", "uploaded", "built"} \/ BuildCalls # {} =>
        /\ ScriptKinds = ExpectedKinds
        /\ Statement("announce") = <<EchoOpen>> \o loc.cmd \o <<EchoClose>>
        /\ Statement("pushd") = <<"pushd ">> \o SyncedTo
        /\ \A b \in BuildCalls : calls[b].dir = Str(loc.dest)

\* C8, amended: the statements in their order, the pushd entering the branch
\* prefix (the source is synced to prefix/top below it) and the popd ending
\* where the script was started: the deployment root on a host, the directory
\* deploy runs in locally.
ScriptAsRendered ==
    pc \in {"rendered", "uploaded", "built"} \/ BuildCalls # {} =>
        /\ ScriptKinds = ExpectedKinds
        /\ Statement("announce") = <<EchoOpen>> \o loc.cmd \o <<EchoClose>>
        /\ Statement("pushd") = <<"pushd ">> \o Str(loc.prefix)
        /\ IsPrefix(loc.prefix, SyncTarget(loc.prefix, <<conf.top>>))
        /\ loc.cmd = IF args.cmd # <<>> THEN args.cmd ELSE conf.cmd
        /\ \A b \in BuildCalls :
              calls[b].dir = IF Given(args.host) THEN Str(loc.dest) ELSE Cwd

\* A script with both hooks was run locally for a source synced to prefix/src.
ScriptRunWithHooks ==
    /\ conf.attrs = {"prebuild", "postbuild"}
    /\ conf.top = "src"
    /\ ~Given(args.host)
    /\ Len(SplitLines(loc.build_script)) = 7
    /\ \E b \in BuildCalls : calls[b].ok

(***************************************************************************)
(* The sync over more filters, working trees and destinations              *)
(***************************************************************************)
ConfsSync ==
    {[name |-> "proj", top |-> ".", cmd |-> <<"make">>, attrs |-> attrs,
      include |-> << <<"*.o">> >>, exclude |-> exclude,
      prebuild |-> <<>>, postbuild |-> <<>>]
        : attrs \in SUBSET {"include", "exclude"},
          exclude \in {<< <<"*.txt">> >>, << <<"*.o">> >>}}

ArgsSync == [host : {"", "h"}, cmd : {<<>>}, profile : {""}, dry : BOOLEAN]

\* The working tree, without and with an untracked sub/a.txt.
GitsSync ==
    [branch : {"master"}, mergebase : {Mainline(3) \o <<"\n">>}, diff : {<<>>},
     tree : {Tree, Tree @@ (<<"sub", "a.txt">> :> "src")}, tracked : {Tracked}]

\* What an earlier build or sync may have left below the branch prefix.
Leftovers ==
    {(<<"junk">> :> "dir") @@ (<<"junk", "x.o">> :> "old"), <<>>}
Stale == {<<"stale.txt">>, <<"x.o">>, <<"sub", "stale.txt">>}

\* The files of a machine: the branch prefix, with the leftovers below it.
FilesBelow(prefix, left) ==
    LET made == MkdirP(NoFiles, prefix)
        more == IF \E e \in DOMAIN left : Len(e) = 2 /\ e[1] = "sub"
                THEN {<<"sub">>} ELSE {}
    IN [q \in (DOMAIN made) \cup {prefix \o e : e \in (DOMAIN left) \cup more} |->
           IF q \in DOMAIN made THEN "dir"
           ELSE LET e == SubSeq(q, Len(prefix) + 1, Len(q))
                IN IF e \in DOMAIN left THEN left[e] ELSE "dir"]

MasterPrefix == <<"var", "Builds", "proj", "branches", "master">>

InitSync ==
    /\ conf \in ConfsSync
    /\ args \in ArgsSync
    /\ git \in GitsSync
    /\ pc = "start"
    /\ loc = NoLocals
    /\ calls = <<>>
    /\ \E stale \in SUBSET Stale, dirs \in Leftovers :
          LET left == [e \in stale |-> "old"] @@ dirs
          IN fs = [m \in Machines |->
                      FilesBelow(<<IF m = "local" THEN Home ELSE "~">> \o MasterPrefix, left)]
    /\ archives = <<>>
    /\ status = "running"

NextSync ==
    \/ Capture
    \/ Save
    \/ SshCheck
    \/ MkdirRemote
    \/ MkdirLocal
    \/ Sync

SpecSync == InitSync /\ [][NextSync]_vars

\* The main sync of a run that is not dry has just succeeded.
Synced == pc = "made" /\ pc' = "synced" /\ ~args.dry

SyncRoot == SyncTarget(loc.prefix, <<conf.top>>)
Before == Below(fs[Machine(args)], SyncRoot)
After == Below(fs'[Machine(args)], SyncRoot)
TrackedFiles == {git.tracked[i] : i \in 1..Len(git.tracked)}
TrackedDirs == UNION {{SubSeq(p, 1, k) : k \in 1..(Len(p) - 1)} : p \in TrackedFiles}
MatchesExclude(e) ==
    \E i \in 1..Len(GetAttr(conf, "exclude")) : Match(GetAttr(conf, "exclude")[i], e)
MatchesInclude(e) ==
    \E i \in 1..Len(GetAttr(conf, "include")) : Match(GetAttr(conf, "include")[i], e)

====
